---- MODULE Spec2Model ----
(***************************************************************************)
(* The content-acquisition pipeline of the feed routes: credential merge,  *)
(* the dedup cache, the tiered fetch of the investing routes, the batch    *)
(* policies of investing/latest-news and coindesk/news, and the douyin     *)
(* user producer.                                                          *)
(*                                                                         *)
(* Strings are sequences of one-character strings.  A value that is        *)
(* undefined or '' in the source (both falsy) is the empty sequence.       *)
(***************************************************************************)
EXTENDS Integers, Sequences, FiniteSets, TLC

(* ------------------------------ bounds --------------------------------- *)
\* items of an upstream feed
MaxItems == 2
\* characters by which the longest credential exceeds the log preview
MaxExtra == 2

(* ------------------------- program constants --------------------------- *)
\* cookie.slice(0, 32)
PreviewLen == 32

(* ------------------------------ strings -------------------------------- *)
Rep(c, n) == [i \in 1..n |-> c]

Truthy(s) == s # <<>>

Slice(s, n) == SubSeq(s, 1, IF Len(s) < n THEN Len(s) ELSE n)

NoneText == <<"n", "o", "n", "e">>

Sep == <<";", " ">>

RECURSIVE Join(_)
Join(parts) ==
    IF parts = <<>> THEN <<>>
    ELSE IF Len(parts) = 1 THEN parts[1]
    ELSE parts[1] \o Sep \o Join(Tail(parts))

\* s occurs in t as a contiguous substring
Occurs(s, t) ==
    \E i \in 0..(Len(t) - Len(s)) : SubSeq(t, i + 1, i + Len(s)) = s

\* the credentials a request or the process may carry
CredValues ==
    {<<>>, <<"a">>, <<"b">>, <<"c">>}
        \cup {Rep("k", n) : n \in {PreviewLen, PreviewLen + MaxExtra}}

(* ------------------- credential resolver: investing -------------------- *)
\* latest-news.ts 58-67, most-popular-news.ts 92-101
cookieParts(q, h, e) ==
    (IF Truthy(q) THEN <<q>> ELSE <<>>)
        \o (IF Truthy(h) THEN <<h>> ELSE <<>>)
        \o (IF Truthy(e) THEN <<e>> ELSE <<>>)

\* const cookie = cookieParts.join('; ')
InvestingCookie(q, h, e) == Join(cookieParts(q, h, e))

InvestingCookieSource(q, h, e) ==
    IF Truthy(q) THEN "query+env/header"
    ELSE IF Truthy(h) THEN "header+env"
    ELSE IF Truthy(e) THEN "env"
    ELSE "none"

\* (query('puppeteer') ?? env ?? 'false').toString().toLowerCase() === 'true'
Absent == "absent"

FlagValues == {Absent, "true", "TRUE", "false"}

ToLowerCase(s) == IF s = "TRUE" THEN "true" ELSE s

Coalesce(a, b) == IF a # Absent THEN a ELSE b

usePuppeteerOf(q, e) == ToLowerCase(Coalesce(q, Coalesce(e, "false"))) = "true"

\* the record logger.info writes: source, length, prefix
PreviewLog(source, cookie) ==
    [source |-> source,
     length |-> Len(cookie),
     prefix |-> IF Truthy(cookie) THEN Slice(cookie, PreviewLen) ELSE NoneText]

InvestingLog(q, h, e) ==
    PreviewLog(InvestingCookieSource(q, h, e), InvestingCookie(q, h, e))

(* --------------- credential resolver: the other routes ----------------- *)
\* a query parameter carries its value base64-encoded
Encoded(s) == [b64 |-> s]

\* Buffer.from(encoded, 'base64').toString('utf8')
decodeBase64Value(param) == param.b64

getCookieFromUrlBase64(param) == decodeBase64Value(param)

\* xiaohongshu/check-cookie.ts 37: cookieFromQuery || headerCookie || config
XhsCookieHeaderFirst(q, h, e) ==
    IF Truthy(h) THEN h ELSE IF Truthy(q) THEN q ELSE e

XhsCookie(q, h, e) ==
    IF Truthy(q) THEN q ELSE IF Truthy(h) THEN h ELSE e

XhsCookieSource(q, h, e) ==
    IF Truthy(q) THEN "query"
    ELSE IF Truthy(h) THEN "header"
    ELSE IF Truthy(e) THEN "config"
    ELSE "none"

XhsLog(q, h, e) == PreviewLog(XhsCookieSource(q, h, e), XhsCookie(q, h, e))

\* the check-cookie handler without a query source: headerCookie || config
XhsHeaderCookie(h, e) == IF Truthy(h) THEN h ELSE e

XhsHeaderLog(h) ==
    [length |-> Len(h),
     prefix |-> IF Truthy(h) THEN Slice(h, PreviewLen) ELSE NoneText]

\* douyin/user.ts 46-49, douyin/user-web.ts 47-50: headerCookie || config
DouyinCookie(h, e) == IF Truthy(h) THEN h ELSE e

DouyinCookieSource(h, e) ==
    IF Truthy(h) THEN "header" ELSE IF Truthy(e) THEN "env" ELSE "none"

DouyinLog(h, e) == PreviewLog(DouyinCookieSource(h, e), DouyinCookie(h, e))

\* twitter/user.ts 94-105: query values overwrite the process configuration
OrNone(s) == IF Truthy(s) THEN s ELSE NoneText

TwitterAnyQuery(u, p, t) == Truthy(u) \/ Truthy(p) \/ Truthy(t)

TwitterConfig(cfg, u, p, t) ==
    [username |-> IF Truthy(u) THEN <<u>> ELSE cfg.username,
     password |-> IF Truthy(p) THEN <<p>> ELSE cfg.password,
     authToken |-> IF Truthy(t) THEN <<t>> ELSE cfg.authToken]

TwitterLog(u, p, t) ==
    [username |-> OrNone(u), password |-> OrNone(p), authToken |-> OrNone(t)]

\* twitter/user.ts 113
TwitterActiveApi(cfg, thirdParty) ==
    IF thirdParty \/ Len(cfg.authToken) > 0 THEN "webApi"
    ELSE IF Len(cfg.username) > 0 /\ Len(cfg.password) > 0 THEN "mobileApi"
    ELSE "api"

(* ========================== the route served ========================== *)
\* the route whose handler this run of the process is exercised with
VARIABLE served

Routes ==
    {"latest-news", "coindesk", "most-popular-news", "douyin", "douyin-web",
     "credentials", "twitter", "extraction", "instagram",
     "renderdata"}

(* ======================= credential resolution ========================= *)
VARIABLES crPc, crRoute, crIn, crOut, crLog, twConfig, twEnv

credVars == <<crPc, crRoute, crIn, crOut, crLog, twConfig, twEnv>>

CredRoutes ==
    {"investing", "xiaohongshu", "xiaohongshu-header", "douyin", "twitter"}

NoOut == [cookie |-> <<>>, source |-> "none"]

\* config.twitter as the process environment sets it
TwitterEnvConfigs ==
    {[username |-> <<>>, password |-> <<>>, authToken |-> <<>>],
     [username |-> <<>>, password |-> <<>>, authToken |-> << <<"c">> >>]}

\* what a twitter request may put in its three query parameters
TwitterQueryValues == {<<>>, <<"a">>, <<"b">>}

CredInputs ==
    [query : {Encoded(v) : v \in CredValues}, header : CredValues, env : CredValues]

NoCredInput == [query |-> Encoded(<<>>), header |-> <<>>, env |-> <<>>]

\* the first request has arrived with its inputs; the process configuration
\* is what the environment set
CredInit ==
    /\ crPc = "input"
    /\ crRoute = "none"
    /\ crIn \in (IF served = "credentials" THEN CredInputs ELSE {NoCredInput})
    /\ crOut = NoOut
    /\ crLog = <<>>
    /\ twConfig \in (IF served = "twitter" THEN TwitterEnvConfigs
                     ELSE {[username |-> <<>>, password |-> <<>>,
                            authToken |-> <<>>]})
    /\ twEnv = twConfig

\* investing/latest-news.ts 57-71, investing/most-popular-news.ts 91-105
ResolveInvesting ==
    /\ served = "credentials"
    /\ crPc = "input"
    /\ LET q == crIn.query.b64
           h == crIn.header
           e == crIn.env
       IN /\ crOut' = [cookie |-> InvestingCookie(q, h, e),
                       source |-> InvestingCookieSource(q, h, e)]
          /\ crLog' = <<InvestingLog(q, h, e)>>
    /\ crRoute' = "investing"
    /\ crPc' = "resolved"
    /\ UNCHANGED <<crIn, twConfig, twEnv>>

\* xiaohongshu/check-cookie.ts 34-41
ResolveXhs ==
    /\ served = "credentials"
    /\ crPc = "input"
    /\ LET q == getCookieFromUrlBase64(crIn.query)
           h == crIn.header
           e == crIn.env
       IN /\ crOut' = [cookie |-> XhsCookie(q, h, e),
                       source |-> XhsCookieSource(q, h, e)]
          /\ crLog' = <<XhsLog(q, h, e)>>
    /\ crRoute' = "xiaohongshu"
    /\ crPc' = "resolved"
    /\ UNCHANGED <<crIn, twConfig, twEnv>>

\* the check-cookie handler that reads only the header and the configuration
ResolveXhsHeader ==
    /\ served = "credentials"
    /\ crPc = "input"
    /\ crOut' = [cookie |-> XhsHeaderCookie(crIn.header, crIn.env),
                 source |-> "none"]
    /\ crLog' = <<XhsHeaderLog(crIn.header)>>
    /\ crRoute' = "xiaohongshu-header"
    /\ crPc' = "resolved"
    /\ UNCHANGED <<crIn, twConfig, twEnv>>

\* douyin/user.ts 46-49, douyin/user-web.ts 47-50
ResolveDouyin ==
    /\ served = "credentials"
    /\ crPc = "input"
    /\ crOut' = [cookie |-> DouyinCookie(crIn.header, crIn.env),
                 source |-> DouyinCookieSource(crIn.header, crIn.env)]
    /\ crLog' = <<DouyinLog(crIn.header, crIn.env)>>
    /\ crRoute' = "douyin"
    /\ crPc' = "resolved"
    /\ UNCHANGED <<crIn, twConfig, twEnv>>

\* twitter/user.ts 89-113
TwitterHandler(u, p, t) ==
    /\ served = "twitter"
    /\ crPc = "input"
    /\ crIn' = [username |-> Encoded(u), password |-> Encoded(p),
                authToken |-> Encoded(t)]
    /\ LET uq == decodeBase64Value(Encoded(u))
           pq == decodeBase64Value(Encoded(p))
           tq == decodeBase64Value(Encoded(t))
       IN IF TwitterAnyQuery(uq, pq, tq)
          THEN /\ twConfig' = TwitterConfig(twConfig, uq, pq, tq)
               /\ crLog' = <<TwitterLog(uq, pq, tq)>>
          ELSE /\ twConfig' = twConfig
               /\ crLog' = <<>>
    /\ crOut' = [cookie |-> <<>>,
                 source |-> TwitterActiveApi(twConfig', FALSE)]
    /\ crRoute' = "twitter"
    /\ crPc' = "resolved"
    /\ UNCHANGED twEnv

\* the twitter request completes; config.twitter stays as the request left it
TwitterReturn ==
    /\ served = "twitter"
    /\ crPc = "resolved"
    /\ crPc' = "input"
    /\ crRoute' = "none"
    /\ crIn' = NoCredInput
    /\ crOut' = NoOut
    /\ crLog' = <<>>
    /\ UNCHANGED <<twConfig, twEnv>>

CredNext ==
    \/ ResolveInvesting
    \/ ResolveXhs
    \/ ResolveXhsHeader
    \/ ResolveDouyin
    \/ \E u, p, t \in TwitterQueryValues : TwitterHandler(u, p, t)
    \/ TwitterReturn

(* ============================ dedup cache ============================== *)
\* the article links of the upstream sites (the cache keys)
Links == {"u1", "u2"}

\* the upstream feeds: every list of at most MaxItems links
Feeds == UNION {[1..n -> Links] : n \in 0..MaxItems}

NoDescription == "none"

NewItem(k) == [link |-> k, description |-> NoDescription]

NoEntry == [state |-> "None", value |-> NewItem("u1"), fresh |-> FALSE]

PendingEntry == [state |-> "Pending", value |-> NewItem("u1"), fresh |-> FALSE]

ReadyEntry(v) == [state |-> "Ready", value |-> v, fresh |-> TRUE]

\* getOrCompute, the check: a Ready entry that has not expired is a hit, a
\* Pending one makes the caller wait, anything else is a miss
LookupNeverHit(c, k) ==
    IF c[k].state = "Pending" THEN "wait" ELSE "miss"

LookupIgnoringExpiry(c, k) ==
    IF c[k].state = "Ready" THEN "hit"
    ELSE IF c[k].state = "Pending" THEN "wait"
    ELSE "miss"

LookupIgnoringPending(c, k) ==
    IF c[k].state = "Ready" /\ c[k].fresh THEN "hit" ELSE "miss"

Lookup(c, k) ==
    IF c[k].state = "Ready" /\ c[k].fresh THEN "hit"
    ELSE IF c[k].state = "Pending" THEN "wait"
    ELSE "miss"

\* getOrCompute, the call of worker i for key k: st = [cache, wpc, wres];
\* on a miss the entry becomes Pending and the producer starts at pc `first`
TryGet(st, k, i, first) ==
    LET kind == Lookup(st.cache, k)
    IN CASE kind = "hit" ->
              [st EXCEPT !.wpc[i] = "done", !.wres[i] = st.cache[k].value]
         [] kind = "wait" -> [st EXCEPT !.wpc[i] = "wait"]
         [] OTHER -> [st EXCEPT !.cache[k] = PendingEntry, !.wpc[i] = first]

(* ========================= content extraction ========================== *)
\* what a retrieved article page holds for each selector of the chain
Presence == {"absent", "empty", "content"}

Pages == [primary : Presence, alternate : Presence, generic : Presence,
          meta : Presence]

BlankPage == [primary |-> "absent", alternate |-> "absent",
              generic |-> "absent", meta |-> "absent"]

\* the pages the batch routes are served
BatchPages == {BlankPage, [BlankPage EXCEPT !.primary = "content"]}

\* the extraction with the alternate container tested first
ExtractHtmlAlternateFirst(page) ==
    LET article == IF page.alternate # "absent" THEN "alternate"
                   ELSE IF page.primary # "absent" THEN "primary"
                   ELSE "generic"
    IN IF page[article] = "content" THEN article
       ELSE IF page.meta = "content" THEN "meta"
       ELSE NoDescription

\* the extraction with the metadata content as its last resort
ExtractHtmlNeverNone(page) ==
    LET article == IF page.primary # "absent" THEN "primary"
                   ELSE IF page.alternate # "absent" THEN "alternate"
                   ELSE "generic"
    IN IF page[article] = "content" THEN article ELSE "meta"

\* latest-news.ts 118-121 and 155-158: the description taken from a page,
\* named by the strategy that supplied it
ExtractHtml(page) ==
    LET article == IF page.primary # "absent" THEN "primary"
                   ELSE IF page.alternate # "absent" THEN "alternate"
                   ELSE "generic"
    IN IF page[article] = "content" THEN article
       ELSE IF page.meta = "content" THEN "meta"
       ELSE NoDescription

(* ============ the batch routes: latest-news and coindesk =============== *)
(* One handler invocation at a time; the cache outlives it.  Inside an     *)
(* invocation the fetchItem calls of a parallel batch run concurrently,    *)
(* each step below being the code between two awaits.                      *)
VARIABLES hpc, req, items, wpc, wres, att, sess, wsel, out, cache

batchVars == <<hpc, req, items, wpc, wres, att, sess, wsel, out, cache>>

NoReq == [route |-> "none", cookie |-> <<>>, source |-> "none",
          usePuppeteer |-> FALSE, feed |-> "none", limit |-> 0,
          avail |-> 0]

\* the pcs at which a worker is running the producer of its key
ProducerPcs ==
    {"direct", "launch", "selector", "content", "destroy", "cdfetch", "cdtext"}

Running(pc) == pc \in ProducerPcs \cup {"wait"}

\* the process has started: no request yet, the cache empty
BatchInit ==
    /\ hpc = "idle"
    /\ req = NoReq
    /\ items = <<>>
    /\ wpc = <<>>
    /\ wres = <<>>
    /\ att = <<>>
    /\ sess = <<>>
    /\ wsel = <<>>
    /\ out = <<>>
    /\ cache = [k \in Links |-> NoEntry]

\* Array.prototype.slice(0, limit) on a list of length n: how many are kept
SliceEnd(n, limit) ==
    IF limit < 0 THEN (IF n + limit < 0 THEN 0 ELSE n + limit)
    ELSE IF limit > n THEN n ELSE limit

\* the values of the limit parameter; 20 is the default of latest-news.ts 55
DefaultLimit == 20

Limits == {-1, 0, 1, DefaultLimit}

\* a batch as the handler builds it, before any fetchItem call
FreshBatch(links) ==
    [cache |-> cache,
     wpc |-> [i \in 1..Len(links) |-> "init"],
     wres |-> [i \in 1..Len(links) |-> NewItem(links[i])]]

RECURSIVE CallAll(_, _, _, _)
\* items.map((item) => fetchItem(item)): the calls are made in input order
CallAll(st, links, i, first) ==
    IF i > Len(links) THEN st
    ELSE CallAll(TryGet(st, links[i], i, first), links, i + 1, first)

\* the batch is handed to the policy: serial calls fetchItem for the first
\* item only, parallel for all of them
SerialPolicy(links, first) ==
    IF links = <<>> THEN FreshBatch(links)
    ELSE TryGet(FreshBatch(links), links[1], 1, first)

ParallelPolicy(links, first) == CallAll(FreshBatch(links), links, 1, first)

StartBatch(links, serial, first) ==
    LET st == IF serial THEN SerialPolicy(links, first)
              ELSE ParallelPolicy(links, first)
    IN /\ items' = links
       /\ cache' = st.cache
       /\ wpc' = st.wpc
       /\ wres' = st.wres
       /\ att' = [i \in 1..Len(links) |-> <<>>]
       /\ sess' = [i \in 1..Len(links) |-> "none"]
       /\ wsel' = [i \in 1..Len(links) |-> "none"]
       /\ out' = <<>>
       /\ hpc' = IF links = <<>> THEN "done" ELSE "batch"

SettleProducerOnly(i, pcNew, v) ==
    /\ cache' = [cache EXCEPT ![items[i]] = IF pcNew = "done" THEN ReadyEntry(v)
                                            ELSE NoEntry]
    /\ wpc' = [wpc EXCEPT ![i] = pcNew]
    /\ wres' = [wres EXCEPT ![i] = v]

\* the producer of worker i completes: the entry becomes Ready with v (or,
\* the producer having thrown, is evicted) and every waiter on the key is
\* released with the same outcome
SettleEvictingEmpty(i, pcNew, v) ==
    LET k == items[i]
        hit(j) == j = i \/ (wpc[j] = "wait" /\ items[j] = k)
    IN /\ cache' = [cache EXCEPT
                      ![k] = IF pcNew = "done" /\ v.description # NoDescription
                             THEN ReadyEntry(v) ELSE NoEntry]
       /\ wpc' = [j \in 1..Len(wpc) |-> IF hit(j) THEN pcNew ELSE wpc[j]]
       /\ wres' = [j \in 1..Len(wres) |-> IF hit(j) THEN v ELSE wres[j]]

Settle(i, pcNew, v) ==
    LET k == items[i]
        hit(j) == j = i \/ (wpc[j] = "wait" /\ items[j] = k)
    IN /\ cache' = [cache EXCEPT
                      ![k] = IF pcNew = "done" THEN ReadyEntry(v) ELSE NoEntry]
       /\ wpc' = [j \in 1..Len(wpc) |-> IF hit(j) THEN pcNew ELSE wpc[j]]
       /\ wres' = [j \in 1..Len(wres) |-> IF hit(j) THEN v ELSE wres[j]]

\* a tier attempt is recorded when it ends
Attempt(i, tier, outcome) ==
    att' = [att EXCEPT ![i] = Append(@, [tier |-> tier, outcome |-> outcome])]

(* ----------------------- investing/latest-news ------------------------- *)
\* what a latest-news request and the process environment may carry
BatchQueryCookies == {<<>>, <<"a">>}

BatchHeaderCookies == {<<>>}

BatchEnvCookies == {<<>>, <<"c">>}

BatchFlags == {Absent, "true", "false"}

BatchEnvFlags == {Absent, "TRUE"}

\* latest-news.ts 54-79: credentials resolved and logged, the feed requested
LatestNewsStart(q, h, e, pq, pe) ==
    /\ served = "latest-news"
    /\ hpc = "idle"
    /\ req' = [route |-> "latest-news",
               cookie |-> InvestingCookie(q, h, e),
               source |-> InvestingCookieSource(q, h, e),
               usePuppeteer |-> usePuppeteerOf(pq, pe),
               feed |-> "none", limit |-> 0, avail |-> 0]
    /\ hpc' = "feed"
    /\ UNCHANGED <<items, wpc, wres, att, sess, wsel, out, cache>>

\* what the feed request is answered with: a transport error, a body that is
\* not markup, a markup page that is no feed (an interstitial), the RSS feed
FeedBodies == {"error", "text", "html", "xml"}

\* latest-news.ts 80-83: a body that does not start with '<' is an error
FeedIsXml(body) == body \in {"html", "xml"}

\* latest-news.ts 85: parser.parseString rejects a document that is no feed
ParsesAsFeed(body) == body = "xml"

\* latest-news.ts 171-181: serial exactly when puppeteer is enabled
LatestPolicyAlwaysParallel == FALSE

LatestPolicy == req.usePuppeteer

\* latest-news.ts 73-95 and 171-181: the feed arrives (or the request for it
\* fails), the items are cut to the limit and handed to the batch policy
LatestFeedDone(body, feed, limit) ==
    /\ hpc = "feed"
    /\ req.route = "latest-news"
    /\ req' = IF body = "xml"
               THEN [req EXCEPT !.feed = body, !.limit = limit,
                                !.avail = Len(feed)]
               ELSE [req EXCEPT !.feed = body]
    /\ IF body = "error" \/ ~FeedIsXml(body)
       THEN /\ hpc' = "failed"
            /\ UNCHANGED <<items, wpc, wres, att, sess, wsel, out, cache>>
       ELSE IF ~ParsesAsFeed(body)
       THEN /\ hpc' = "failed"
            /\ UNCHANGED <<items, wpc, wres, att, sess, wsel, out, cache>>
       ELSE StartBatch(SubSeq(feed, 1, SliceEnd(Len(feed), limit)),
                       LatestPolicy, "direct")

\* how a retrieval ends: not made, failed, or answered with a page
Outcome(kind) == [kind |-> kind, page |-> BlankPage]

PageOutcomes == {[kind |-> "page", page |-> p] : p \in BatchPages}

DirectOutcomes == {Outcome("skipped"), Outcome("error")} \cup PageOutcomes

BrowserOutcomes == {Outcome("error")} \cup PageOutcomes

\* latest-news.ts 133: if (gotOk || !usePuppeteer) return item
EscalatesAlways(gotOk) == TRUE

Escalates(gotOk) == ~gotOk /\ req.usePuppeteer

\* latest-news.ts 100-102: without a cookie tryGot returns false before any
\* request is made
DirectSkippedNever == FALSE

DirectSkipped == ~Truthy(req.cookie)

\* latest-news.ts 99-135: tryGot ends.  Without a cookie no request is made
\* (kind "skipped"); a request ends in an error or with a page
TryGot(i, res) ==
    /\ i \in 1..Len(wpc)
    /\ wpc[i] = "direct"
    /\ (res.kind = "skipped") <=> DirectSkipped
    /\ LET html == IF res.kind = "page" THEN ExtractHtml(res.page)
                   ELSE NoDescription
           gotOk == html # NoDescription
           item == [wres[i] EXCEPT !.description = IF gotOk THEN html ELSE @]
       IN /\ Attempt(i, "Direct",
                     IF res.kind # "page" THEN res.kind
                     ELSE IF gotOk THEN "ok" ELSE "empty")
          /\ IF Escalates(gotOk)
             THEN /\ wpc' = [wpc EXCEPT ![i] = "launch"]
                  /\ UNCHANGED <<wres, cache>>
             ELSE Settle(i, "done", item)
    /\ UNCHANGED <<hpc, req, items, sess, wsel, out>>

\* latest-news.ts 138-144, 162-168: getPuppeteerPage returns a page context
\* or throws; the throw is caught and the item returned as it is
GetPuppeteerPage(i, ok) ==
    /\ i \in 1..Len(wpc)
    /\ wpc[i] = "launch"
    /\ IF ok
       THEN /\ sess' = [sess EXCEPT ![i] = "open"]
            /\ UNCHANGED wsel
            /\ wpc' = [wpc EXCEPT ![i] = "selector"]
            /\ UNCHANGED <<att, wres, cache>>
       ELSE /\ Attempt(i, "Browser", "error")
            /\ Settle(i, "done", wres[i])
            /\ UNCHANGED <<sess, wsel>>
    /\ UNCHANGED <<hpc, req, items, out>>

\* latest-news.ts 145-151: the timeout of waitForSelector is caught by an
\* empty catch block, so page.content() is the next statement either way
AfterSelectorFatal(timedOut) == IF timedOut THEN "destroy" ELSE "content"

AfterSelector(timedOut) == "content"

\* latest-news.ts 146-150: the selector appears or the wait times out
WaitForSelector(i, timedOut) ==
    /\ i \in 1..Len(wpc)
    /\ wpc[i] = "selector"
    /\ wsel' = [wsel EXCEPT ![i] = IF timedOut THEN "timeout" ELSE "found"]
    /\ wpc' = [wpc EXCEPT ![i] = AfterSelector(timedOut)]
    /\ UNCHANGED <<hpc, req, items, wres, att, sess, out, cache>>

\* latest-news.ts 151-164: the rendered page is read and extracted from
PageContent(i, res) ==
    /\ i \in 1..Len(wpc)
    /\ wpc[i] = "content"
    /\ LET html == IF res.kind = "page" THEN ExtractHtml(res.page)
                   ELSE NoDescription
       IN /\ wres' = [wres EXCEPT ![i].description =
                                     IF html # NoDescription THEN html ELSE @]
          /\ Attempt(i, "Browser",
                     IF res.kind # "page" THEN res.kind
                     ELSE IF html # NoDescription THEN "ok" ELSE "empty")
    /\ wpc' = [wpc EXCEPT ![i] = "destroy"]
    /\ UNCHANGED <<hpc, req, items, sess, wsel, out, cache>>

\* latest-news.ts 164-168: finally destroys the page context, the item is
\* returned
PageDestroyed(i) ==
    /\ i \in 1..Len(wpc)
    /\ wpc[i] = "destroy"
    /\ sess' = [sess EXCEPT ![i] = "closed"]
    /\ UNCHANGED wsel
    /\ Settle(i, "done", wres[i])
    /\ UNCHANGED <<hpc, req, items, att, out>>

\* latest-news.ts 173-178: the awaited fetchItem has resolved; its result is
\* pushed and the next item, if any, is fetched
SerialNext ==
    /\ hpc = "batch"
    /\ LatestPolicy
    /\ LET i == Len(out) + 1
       IN /\ i <= Len(items)
          /\ wpc[i] = "done"
          /\ out' = Append(out, wres[i])
          /\ IF i < Len(items)
             THEN LET st == TryGet([cache |-> cache, wpc |-> wpc,
                                    wres |-> wres],
                                   items[i + 1], i + 1, "direct")
                  IN /\ cache' = st.cache
                     /\ wpc' = st.wpc
                     /\ wres' = st.wres
                     /\ UNCHANGED hpc
             ELSE /\ hpc' = "done"
                  /\ UNCHANGED <<cache, wpc, wres>>
    /\ UNCHANGED <<req, items, att, sess, wsel>>

\* latest-news.ts 180, coindesk/news.ts 40: Promise.all resolves with the
\* results in input order once every fetchItem has resolved
PromiseAllReversed == [i \in 1..Len(wres) |-> wres[Len(wres) + 1 - i]]

PromiseAll == wres

BatchDone ==
    /\ hpc = "batch"
    /\ ~LatestPolicy
    /\ \A i \in 1..Len(wpc) : wpc[i] = "done"
    /\ out' = PromiseAll
    /\ hpc' = "done"
    /\ UNCHANGED <<req, items, wpc, wres, att, sess, wsel, cache>>

\* the response is sent; the handler invocation and its locals are gone
HandlerReturn ==
    /\ hpc \in {"done", "failed"}
    /\ \A i \in 1..Len(wpc) : ~Running(wpc[i])
    /\ hpc' = "idle"
    /\ req' = NoReq
    /\ items' = <<>>
    /\ wpc' = <<>>
    /\ wres' = <<>>
    /\ att' = <<>>
    /\ sess' = <<>>
    /\ wsel' = <<>>
    /\ out' = <<>>
    /\ UNCHANGED cache

\* time passes beyond the expiresAt of a Ready entry
TtlElapse(k) ==
    /\ cache[k].state = "Ready"
    /\ cache[k].fresh
    /\ cache' = [cache EXCEPT ![k].fresh = FALSE]
    /\ UNCHANGED <<hpc, req, items, wpc, wres, att, sess, wsel, out>>

(* --------------------------- coindesk/news ----------------------------- *)
\* coindesk/news.ts 32-35: the feed is requested
CoindeskStart ==
    /\ served = "coindesk"
    /\ hpc = "idle"
    /\ req' = [NoReq EXCEPT !.route = "coindesk"]
    /\ hpc' = "feed"
    /\ UNCHANGED <<items, wpc, wres, att, sess, wsel, out, cache>>

\* coindesk/news.ts 34-40: the feed arrives and is parsed, or either throws;
\* every item is fetched through the cache, all at once
CoindeskFeedDone(ok, feed) ==
    /\ hpc = "feed"
    /\ req.route = "coindesk"
    /\ IF ok
       THEN StartBatch(feed, FALSE, "cdfetch")
       ELSE /\ hpc' = "failed"
            /\ UNCHANGED <<items, wpc, wres, att, sess, wsel, out, cache>>
    /\ UNCHANGED req

\* coindesk/utils.ts 6: fetch(item.link) resolves or rejects; parseItem has
\* no handler, so a rejection is the producer's
ParseItemFetch(i, ok) ==
    /\ i \in 1..Len(wpc)
    /\ wpc[i] = "cdfetch"
    /\ IF ok
       THEN /\ wpc' = [wpc EXCEPT ![i] = "cdtext"]
            /\ UNCHANGED <<wres, cache>>
       ELSE Settle(i, "failed", wres[i])
    /\ UNCHANGED <<hpc, req, items, att, sess, wsel, out>>

\* coindesk/utils.ts 7-26: the body is read and parsed; response.text() may
\* reject, JSON.parse and the reads of ldJson may throw
ParseItemBody(i, res) ==
    /\ i \in 1..Len(wpc)
    /\ wpc[i] = "cdtext"
    /\ IF res = "ok"
       THEN Settle(i, "done", [wres[i] EXCEPT !.description = "primary"])
       ELSE Settle(i, "failed", wres[i])
    /\ UNCHANGED <<hpc, req, items, att, sess, wsel, out>>

\* coindesk/news.ts 40: Promise.all rejects as soon as one fetchItem rejects;
\* the handler has no handler for it
BatchRejected ==
    /\ hpc = "batch"
    /\ \E i \in 1..Len(wpc) : wpc[i] = "failed"
    /\ hpc' = "failed"
    /\ UNCHANGED <<req, items, wpc, wres, att, sess, wsel, out, cache>>

CoindeskNext ==
    \/ CoindeskStart
    \/ \E ok \in BOOLEAN, feed \in Feeds : CoindeskFeedDone(ok, feed)
    \/ \E i \in 1..MaxItems, ok \in BOOLEAN : ParseItemFetch(i, ok)
    \/ \E i \in 1..MaxItems, res \in {"reject", "throw", "ok"} :
          ParseItemBody(i, res)
    \/ BatchRejected

LatestNext ==
    \/ \E q \in BatchQueryCookies, h \in BatchHeaderCookies,
          e \in BatchEnvCookies, pq \in BatchFlags, pe \in BatchEnvFlags :
          LatestNewsStart(q, h, e, pq, pe)
    \/ \E body \in FeedBodies, feed \in Feeds, limit \in Limits :
          LatestFeedDone(body, feed, limit)
    \/ \E i \in 1..MaxItems, res \in DirectOutcomes : TryGot(i, res)
    \/ \E i \in 1..MaxItems, ok \in BOOLEAN : GetPuppeteerPage(i, ok)
    \/ \E i \in 1..MaxItems, timedOut \in BOOLEAN : WaitForSelector(i, timedOut)
    \/ \E i \in 1..MaxItems, res \in BrowserOutcomes : PageContent(i, res)
    \/ \E i \in 1..MaxItems : PageDestroyed(i)
    \/ SerialNext
    \/ BatchDone
    \/ HandlerReturn
    \/ \E k \in Links : TtlElapse(k)

(* --------------------- investing/most-popular-news --------------------- *)
VARIABLES ppc, preq, listHtml, patt, psess, pthrown, pret, pout

popVars == <<ppc, preq, listHtml, patt, psess, pthrown, pret, pout>>

\* a retrieved body: empty, an anti-bot interstitial, a body that is not
\* markup (an error text, a JSON document), or the page asked for
Contents == {"", "challenge", "text", "html"}

\* most-popular-news.ts 13
isChallengePage(content) == content = "challenge"

NoPopReq == [cookie |-> <<>>, source |-> "none", usePuppeteer |-> FALSE,
             service |-> FALSE, limit |-> 0, avail |-> 0]

PopInit ==
    /\ ppc = "idle"
    /\ preq = NoPopReq
    /\ listHtml = ""
    /\ patt = <<>>
    /\ psess = "none"
    /\ pthrown = FALSE
    /\ pret = ""
    /\ pout = 0

\* how a tier's body is judged: most-popular-news.ts 118 and 151
Judge(content) ==
    IF content = "" THEN "empty"
    ELSE IF isChallengePage(content) THEN "blocked"
    ELSE "ok"

PopAttempt(tier, outcome) ==
    patt' = Append(patt, [tier |-> tier, outcome |-> outcome])

\* most-popular-news.ts 88-110: credentials resolved and logged, the list
\* page requested; service is whether config.puppeteerRealBrowserService is set
PopularStart(q, h, e, pq, pe, service) ==
    /\ served = "most-popular-news"
    /\ ppc = "idle"
    /\ preq' = [cookie |-> InvestingCookie(q, h, e),
                source |-> InvestingCookieSource(q, h, e),
                usePuppeteer |-> usePuppeteerOf(pq, pe),
                service |-> service, limit |-> 0, avail |-> 0]
    /\ ppc' = "direct"
    /\ UNCHANGED <<listHtml, patt, psess, pthrown, pret, pout>>

\* most-popular-news.ts 122-126: after a failed Direct tier the error is
\* rethrown unless puppeteer is enabled
AfterDirectRetrying ==
    IF preq.usePuppeteer THEN "launch"
    ELSE IF Len(patt) < 2 THEN "direct" ELSE "failed"

AfterDirect == IF preq.usePuppeteer THEN "launch" ELSE "failed"

\* most-popular-news.ts 109-126: the request fails, or its body is judged;
\* a failure is rethrown unless puppeteer is enabled
FetchListDirect(res) ==
    /\ ppc = "direct"
    /\ listHtml' = IF res.kind = "error" THEN listHtml ELSE res.body
    /\ LET outcome == IF res.kind = "error" THEN "error" ELSE Judge(res.body)
       IN /\ PopAttempt("Direct", outcome)
          /\ IF outcome = "ok"
             THEN /\ pret' = res.body
                  /\ ppc' = "parse"
             ELSE /\ pret' = pret
                  /\ ppc' = AfterDirect
    /\ UNCHANGED <<preq, psess, pthrown, pout>>

\* most-popular-news.ts 129-149: getPuppeteerPage returns a page context or
\* throws; finally has nothing to destroy then and the throw leaves
\* fetchListHtml
FetchListLaunch(ok) ==
    /\ ppc = "launch"
    /\ IF ok
       THEN /\ psess' = "open"
            /\ ppc' = "content"
            /\ UNCHANGED patt
       ELSE /\ PopAttempt("Browser", "error")
            /\ ppc' = "failed"
            /\ UNCHANGED psess
    /\ UNCHANGED <<preq, listHtml, pthrown, pret, pout>>

\* most-popular-news.ts 146: page.content() resolves or rejects
FetchListContent(res) ==
    /\ ppc = "content"
    /\ listHtml' = IF res.kind = "error" THEN listHtml ELSE res.body
    /\ pthrown' = (res.kind = "error")
    /\ PopAttempt("Browser",
                  IF res.kind = "error" THEN "error" ELSE Judge(res.body))
    /\ ppc' = "destroy"
    /\ UNCHANGED <<preq, psess, pret, pout>>

\* most-popular-news.ts 15 and 151: config.puppeteerRealBrowserService is set
ServiceConfiguredAlways == TRUE

ServiceConfigured == preq.service

\* most-popular-news.ts 151: the real-browser service is asked only for an
\* empty or challenge page, and only when it is configured
NeedsServiceAlways == preq.service

NeedsService == Judge(listHtml) # "ok" /\ ServiceConfigured

\* most-popular-news.ts 147-159: finally destroys the page context; a throw
\* of page.content() leaves fetchListHtml, otherwise the content is returned
\* or the real-browser service asked
FetchListDestroy ==
    /\ ppc = "destroy"
    /\ psess' = "closed"
    /\ IF pthrown THEN /\ ppc' = "failed"
                       /\ pret' = pret
       ELSE IF NeedsService THEN /\ ppc' = "external"
                                 /\ pret' = pret
       ELSE /\ ppc' = "parse"
            /\ pret' = listHtml
    /\ UNCHANGED <<preq, listHtml, patt, pthrown, pout>>

\* most-popular-news.ts 14-25: '' without a request when no service is
\* configured; otherwise the first fragment of the service's answer, '' when
\* there is none or the request fails
fetchWithRealBrowser(res) ==
    IF ~ServiceConfigured THEN ""
    ELSE IF res.kind = "error" \/ res.body = <<>> THEN "" ELSE res.body[1]

\* most-popular-news.ts 153-159: a non-empty fragment is returned, otherwise
\* the page content as it is
FetchListExternal(res) ==
    /\ ppc = "external"
    /\ LET html == fetchWithRealBrowser(res)
       IN /\ IF ServiceConfigured
             THEN PopAttempt("External",
                             IF res.kind = "error" THEN "error"
                             ELSE Judge(html))
             ELSE UNCHANGED patt
          /\ pret' = IF html # "" THEN html ELSE listHtml
    /\ ppc' = "parse"
    /\ UNCHANGED <<preq, listHtml, psess, pthrown, pout>>

\* most-popular-news.ts 162-204: n items are parsed from the list page (none
\* from an empty, challenge or markup-free page) and cut to the limit
PopularParse(n, limit) ==
    /\ ppc = "parse"
    /\ (pret # "html") => n = 0
    /\ IF n = 0 /\ ~Truthy(preq.cookie) /\ ~preq.usePuppeteer
       THEN /\ ppc' = "failed"
            /\ pout' = pout
       ELSE /\ ppc' = "done"
            /\ pout' = SliceEnd(n, limit)
    /\ preq' = [preq EXCEPT !.limit = limit, !.avail = n]
    /\ UNCHANGED <<listHtml, patt, psess, pthrown, pret>>

\* the response is sent; the handler invocation and its locals are gone
PopularReturn ==
    /\ ppc \in {"done", "failed"}
    /\ ppc' = "idle"
    /\ preq' = NoPopReq
    /\ listHtml' = ""
    /\ patt' = <<>>
    /\ psess' = "none"
    /\ pthrown' = FALSE
    /\ pret' = ""
    /\ pout' = 0

BodyOutcomes ==
    {[kind |-> "error", body |-> ""]}
        \cup {[kind |-> "body", body |-> c] : c \in Contents}

ServiceOutcomes ==
    {[kind |-> "error", body |-> <<>>], [kind |-> "json", body |-> <<>>]}
        \cup {[kind |-> "json", body |-> <<c>>] : c \in Contents}

PopularNext ==
    \/ \E q \in BatchQueryCookies, h \in BatchHeaderCookies,
          e \in BatchEnvCookies, pq \in BatchFlags, pe \in BatchEnvFlags,
          service \in BOOLEAN : PopularStart(q, h, e, pq, pe, service)
    \/ \E res \in BodyOutcomes : FetchListDirect(res)
    \/ \E ok \in BOOLEAN : FetchListLaunch(ok)
    \/ \E res \in BodyOutcomes : FetchListContent(res)
    \/ FetchListDestroy
    \/ \E res \in ServiceOutcomes : FetchListExternal(res)
    \/ \E n \in 0..MaxItems, limit \in Limits : PopularParse(n, limit)
    \/ PopularReturn

(* ----------------------------- douyin/user ----------------------------- *)
(* One request at a time is followed through its handler; a second request *)
(* for the same user may arrive while the first one's producer is running.  *)
VARIABLES dpc, dcookie, dbrowser, postData, dpending, mainResponse,
          renderDataText, dcache, dfound, dcalls, pageData, dwaiter, dleaked

dyVars ==
    <<dpc, dcookie, dbrowser, postData, dpending, mainResponse,
      renderDataText, dcache, dfound, dcalls, pageData, dwaiter, dleaked>>

\* post data by where it came from; n is the length of its aweme_list
NoPost == [from |-> "none", n |-> 0]

Post(from, n) == [from |-> from, n |-> n]

\* the RENDER_DATA text: absent, unparsable, without post data, or with it
NoRender == [kind |-> "none", n |-> 0]

RenderTexts ==
    {[kind |-> "bad", n |-> 0], [kind |-> "nodata", n |-> 0],
     [kind |-> "data", n |-> 0], [kind |-> "data", n |-> 1]}

\* the document response of page.goto: null, unreadable, or html with or
\* without a RENDER_DATA script
MainResponses ==
    {[kind |-> "null", render |-> NoRender],
     [kind |-> "unreadable", render |-> NoRender],
     [kind |-> "html", render |-> NoRender]}
        \cup {[kind |-> "html", render |-> t] : t \in RenderTexts}

\* the cache key of the requested user: `douyin:user:${uid}` in user.ts,
\* `douyin:user-web:${uid}` in user-web.ts
DyKey == "uid"

DyNoEntry == [NoEntry EXCEPT !.value = NoPost]

DyPendingEntry == [PendingEntry EXCEPT !.value = NoPost]

\* what cache.tryGet gave a caller: nothing yet, a value or an error
NoPageData == [kind |-> "none", value |-> NoPost]

DyInit ==
    /\ dpc = "idle"
    /\ dcookie = <<>>
    /\ dbrowser = "none"
    /\ postData = NoPost
    /\ dpending = {}
    /\ mainResponse = [kind |-> "null", render |-> NoRender]
    /\ renderDataText = NoRender
    /\ dcache = [k \in {DyKey} |-> DyNoEntry]
    /\ dfound = DyNoEntry
    /\ dcalls = 0
    /\ pageData = NoPageData
    /\ dwaiter = NoPageData
    /\ dleaked = FALSE

\* getOrCompute, the call of the request's handler: a hit returns the stored
\* value, a miss makes the entry Pending and starts the producer at `first`
DyTryGet(first) ==
    /\ dfound' = dcache[DyKey]
    /\ IF Lookup(dcache, DyKey) = "hit"
       THEN /\ dpc' = "done"
            /\ pageData' = [kind |-> "value", value |-> dcache[DyKey].value]
            /\ dcalls' = 0
            /\ UNCHANGED dcache
       ELSE /\ dpc' = first
            /\ pageData' = NoPageData
            /\ dcalls' = 1
            /\ dcache' = [dcache EXCEPT ![DyKey] = DyPendingEntry]

\* what the producer's caller gets when the producer ends: its value, or the
\* error thrown, told apart by the step that threw it
DyResult(pcNew, v) ==
    IF pcNew = "done" THEN [kind |-> "value", value |-> v]
    ELSE [kind |-> "error", value |-> Post(dpc, 0)]

DySettleKeepingEntry(pcNew, v) ==
    /\ dcache' = [dcache EXCEPT ![DyKey] = IF pcNew = "done"
                                            THEN ReadyEntry(v)
                                            ELSE ReadyEntry(NoPost)]
    /\ pageData' = DyResult(pcNew, v)
    /\ dwaiter' = IF dwaiter.kind = "wait" THEN DyResult(pcNew, v) ELSE dwaiter

\* getOrCompute, the end of the producer: its value is stored as Ready and
\* returned, or its error evicts the entry and is thrown; the caller waiting
\* on the Pending entry gets the same
DySettle(pcNew, v) ==
    LET result == DyResult(pcNew, v)
    IN /\ dcache' = [dcache EXCEPT ![DyKey] = IF pcNew = "done"
                                               THEN ReadyEntry(v)
                                               ELSE DyNoEntry]
       /\ pageData' = result
       /\ dwaiter' = IF dwaiter.kind = "wait" THEN result ELSE dwaiter

\* a step of the producer: it ends when the step leaves pc "done" or "failed"
DyStep(pcNew, v) ==
    /\ IF pcNew \in {"done", "failed"} THEN DySettle(pcNew, v)
       ELSE UNCHANGED <<dcache, pageData, dwaiter>>
    /\ UNCHANGED <<dfound, dcalls, dleaked>>

\* douyin/user.ts 41-61: credentials resolved and logged; cache.tryGet is
\* called and, on a miss, the producer starts and asks for a browser
DouyinStart(h, e) ==
    /\ served = "douyin"
    /\ dpc = "idle"
    /\ dcookie' = DouyinCookie(h, e)
    /\ DyTryGet("puppeteer")
    /\ UNCHANGED <<dbrowser, postData, dpending, mainResponse, renderDataText,
                   dwaiter, dleaked>>

\* douyin/user.ts 61: puppeteer() resolves with a browser or rejects
DouyinPuppeteer(ok) ==
    /\ dpc = "puppeteer"
    /\ dbrowser' = IF ok THEN "open" ELSE dbrowser
    /\ dpc' = IF ok THEN "newPage" ELSE "failed"
    /\ UNCHANGED <<dcookie, postData, dpending, mainResponse, renderDataText>>
    /\ DyStep(dpc', postData')

\* douyin/user.ts 62: browser.newPage() resolves or rejects; nothing handles
\* the rejection
DouyinNewPage(ok) ==
    /\ dpc = "newPage"
    /\ dpc' = IF ok THEN "intercept" ELSE "failed"
    /\ UNCHANGED <<dcookie, dbrowser, postData, dpending, mainResponse,
                   renderDataText>>
    /\ DyStep(dpc', postData')

\* douyin/user.ts 63-70: setRequestInterception resolves or rejects; with a
\* cookie, setCookies follows, its failure caught
DouyinIntercept(ok) ==
    /\ dpc = "intercept"
    /\ dpc' = IF ~ok THEN "failed"
              ELSE IF Truthy(dcookie) THEN "setCookies" ELSE "goto"
    /\ UNCHANGED <<dcookie, dbrowser, postData, dpending, mainResponse,
                   renderDataText>>
    /\ DyStep(dpc', postData')

DouyinSetCookies(ok) ==
    /\ dpc = "setCookies"
    /\ dpc' = "goto"
    /\ UNCHANGED <<dcookie, dbrowser, postData, dpending, mainResponse,
                   renderDataText>>
    /\ DyStep(dpc', postData')

\* the page is loading or loaded: the response listener of user.ts 75 is on
Listening ==
    dbrowser = "open" /\ dpc \in {"goto", "waitForResponse", "text", "selector",
                                  "evaluate", "close"}

\* douyin/user.ts 75-77: a '/web/aweme/post' response arrives; with postData
\* still unset its body is requested
DouyinResponse(n) ==
    /\ Listening
    /\ postData = NoPost
    /\ dpending' = dpending \cup {Post("intercept", n)}
    /\ UNCHANGED <<dpc, dcookie, dbrowser, postData, mainResponse,
                   renderDataText>>
    /\ UNCHANGED <<dcache, dfound, dcalls, pageData, dwaiter, dleaked>>

\* douyin/user.ts 78-82: response.json() resolves and postData is assigned,
\* or it rejects and the failure is logged
DouyinResponseJson(v, ok) ==
    /\ dbrowser = "open"
    /\ v \in dpending
    /\ dpending' = dpending \ {v}
    /\ postData' = IF ok THEN v ELSE postData
    /\ UNCHANGED <<dpc, dcookie, dbrowser, mainResponse, renderDataText>>
    /\ UNCHANGED <<dcache, dfound, dcalls, pageData, dwaiter, dleaked>>

\* douyin/user.ts 87-89: page.goto resolves with the document response (or
\* null) or rejects; nothing handles the rejection
DouyinGoto(ok, response) ==
    /\ dpc = "goto"
    /\ dpc' = IF ok THEN "waitForResponse" ELSE "failed"
    /\ mainResponse' = IF ok THEN response ELSE mainResponse
    /\ UNCHANGED <<dcookie, dbrowser, postData, dpending, renderDataText>>
    /\ DyStep(dpc', postData')

\* douyin/user.ts 90-109: the wait for the post response ends (a timeout is
\* logged); the document text is read when there is a response, and the
\* RENDER_DATA script matched in it
DouyinWaitForResponse(timedOut) ==
    /\ dpc = "waitForResponse"
    /\ dpc' = IF mainResponse.kind = "null" THEN "selector" ELSE "text"
    /\ UNCHANGED <<dcookie, dbrowser, postData, dpending, mainResponse,
                   renderDataText>>
    /\ DyStep(dpc', postData')

DouyinText ==
    /\ dpc = "text"
    /\ renderDataText' = IF mainResponse.kind = "html" THEN mainResponse.render
                         ELSE NoRender
    /\ dpc' = IF renderDataText'.kind = "none" THEN "selector" ELSE "close"
    /\ UNCHANGED <<dcookie, dbrowser, postData, dpending, mainResponse>>
    /\ DyStep(dpc', postData')

\* douyin/user.ts 110-117: without a text, the #RENDER_DATA element is waited
\* for and read; a timeout or failure leaves null
DouyinSelector(ok, text) ==
    /\ dpc = "selector"
    /\ renderDataText' = IF ok THEN text ELSE NoRender
    /\ dpc' = "close"
    /\ UNCHANGED <<dcookie, dbrowser, postData, dpending, mainResponse>>
    /\ DyStep(dpc', postData')

\* douyin/user.ts 123-131: post data taken from RENDER_DATA
RenderPostData(text) ==
    IF text.kind = "data" /\ text.n > 0 THEN Post("render", text.n) ELSE NoPost

\* douyin/user.ts 119-134: the browser is closed (bodies still awaited are
\* lost with it); RENDER_DATA is the fallback for missing post data, the web
\* api the next one
DouyinClose ==
    /\ dpc = "close"
    /\ dbrowser' = "closed"
    /\ dpending' = {}
    /\ postData' = IF postData = NoPost THEN RenderPostData(renderDataText)
                   ELSE postData
    /\ dpc' = IF postData' = NoPost THEN "api" ELSE "done"
    /\ UNCHANGED <<dcookie, mainResponse, renderDataText>>
    /\ DyStep(dpc', postData')

\* douyin/user.ts 134-167: the web api answers with n posts or fails; no
\* post data at all is an error
DouyinApi(ok, n) ==
    /\ dpc = "api"
    /\ postData' = IF ok /\ n > 0 THEN Post("api", n) ELSE postData
    /\ dpc' = IF postData' = NoPost THEN "failed" ELSE "done"
    /\ UNCHANGED <<dcookie, dbrowser, dpending, mainResponse, renderDataText>>
    /\ DyStep(dpc', postData')

\* douyin/user-web.ts 41-60: credentials resolved and logged; cache.tryGet
\* is called and, on a miss, the producer starts with the web api request
DouyinWebStart(h, e) ==
    /\ served = "douyin-web"
    /\ dpc = "idle"
    /\ dcookie' = DouyinCookie(h, e)
    /\ DyTryGet("webapi")
    /\ UNCHANGED <<dbrowser, postData, dpending, mainResponse, renderDataText,
                   dwaiter, dleaked>>

\* douyin/user-web.ts 72-86: the web api answers with n posts or the request
\* fails; a failure and an empty list both leave the producer by a throw
DouyinWebApi(ok, n) ==
    /\ dpc = "webapi"
    /\ postData' = IF ok /\ n > 0 THEN Post("api", n) ELSE postData
    /\ dpc' = IF postData' = NoPost THEN "failed" ELSE "done"
    /\ UNCHANGED <<dcookie, dbrowser, dpending, mainResponse, renderDataText>>
    /\ DyStep(dpc', postData')

\* the pcs at which the producer of the entry is running
DyProducerPcs ==
    {"puppeteer", "newPage", "intercept", "setCookies", "goto",
     "waitForResponse", "text", "selector", "close", "api", "webapi"}

\* a second request for the same user calls cache.tryGet while the producer
\* is running: it finds the entry Pending and waits
DouyinSecondRequest ==
    /\ dpc \in DyProducerPcs
    /\ dwaiter.kind = "none"
    /\ Lookup(dcache, DyKey) = "wait"
    /\ dwaiter' = [dwaiter EXCEPT !.kind = "wait"]
    /\ UNCHANGED <<dpc, dcookie, dbrowser, postData, dpending, mainResponse,
                   renderDataText, dcache, dfound, dcalls, pageData, dleaked>>

\* time passes beyond the expiresAt of the Ready entry
DyTtlElapse ==
    /\ dpc = "idle"
    /\ dcache[DyKey].state = "Ready"
    /\ dcache[DyKey].fresh
    /\ dcache' = [dcache EXCEPT ![DyKey].fresh = FALSE]
    /\ UNCHANGED <<dpc, dcookie, dbrowser, postData, dpending, mainResponse,
                   renderDataText, dfound, dcalls, pageData, dwaiter, dleaked>>

\* the producer has returned or thrown and the requests are answered; the
\* handler's locals are gone, the cache stays, and a browser that was not
\* closed stays open
DouyinReturn ==
    /\ dpc \in {"done", "failed"}
    /\ dleaked' = (dleaked \/ dbrowser = "open")
    /\ dfound' = DyNoEntry
    /\ dcalls' = 0
    /\ pageData' = NoPageData
    /\ dwaiter' = NoPageData
    /\ UNCHANGED dcache
    /\ dpc' = "idle"
    /\ dcookie' = <<>>
    /\ dbrowser' = "none"
    /\ postData' = NoPost
    /\ dpending' = {}
    /\ mainResponse' = [kind |-> "null", render |-> NoRender]
    /\ renderDataText' = NoRender

DouyinNext ==
    \/ \E h \in BatchQueryCookies, e \in BatchEnvCookies : DouyinStart(h, e)
    \/ \E ok \in BOOLEAN : DouyinPuppeteer(ok)
    \/ \E ok \in BOOLEAN : DouyinNewPage(ok)
    \/ \E ok \in BOOLEAN : DouyinIntercept(ok)
    \/ \E ok \in BOOLEAN : DouyinSetCookies(ok)
    \/ \E n \in 0..1 : DouyinResponse(n)
    \/ \E v \in dpending, ok \in BOOLEAN : DouyinResponseJson(v, ok)
    \/ \E ok \in BOOLEAN, response \in MainResponses : DouyinGoto(ok, response)
    \/ \E timedOut \in BOOLEAN : DouyinWaitForResponse(timedOut)
    \/ DouyinText
    \/ \E ok \in BOOLEAN, text \in RenderTexts : DouyinSelector(ok, text)
    \/ DouyinClose
    \/ \E ok \in BOOLEAN, n \in 0..1 : DouyinApi(ok, n)
    \/ \E h \in BatchQueryCookies, e \in BatchEnvCookies : DouyinWebStart(h, e)
    \/ \E ok \in BOOLEAN, n \in 0..MaxItems : DouyinWebApi(ok, n)
    \/ DouyinSecondRequest
    \/ DyTtlElapse
    \/ DouyinReturn

(***************************************************************************)
(* The extraction of a description from a retrieved page, as latest-news   *)
(* writes it out twice: in tryGot (l.116-125) and after page.content()     *)
(* (l.151-161). served = "extraction" applies it to every page.            *)
(***************************************************************************)
VARIABLES xpage, xtier, xhtml

exVars == <<xpage, xtier, xhtml>>

ExInit ==
    /\ xpage \in IF served = "extraction" THEN Pages ELSE {BlankPage}
    /\ xtier = "none"
    /\ xhtml = NoDescription

\* latest-news.ts 116-125: the Direct tier extracts from the response body
ExtractDirect ==
    /\ served = "extraction"
    /\ xtier = "none"
    /\ xtier' = "Direct"
    /\ xhtml' = ExtractHtml(xpage)
    /\ UNCHANGED xpage

\* latest-news.ts 150-161: the Browser tier extracts from page.content()
ExtractBrowser ==
    /\ served = "extraction"
    /\ xtier = "none"
    /\ xtier' = "Browser"
    /\ xhtml' = ExtractHtml(xpage)
    /\ UNCHANGED xpage

ExtractNext == ExtractDirect \/ ExtractBrowser

(***************************************************************************)
(* The instagram handler (the second handler of douyin/user.ts, l.317-406) *)
(* and the cookie jar it shares between requests under the cache key       *)
(* 'instagram:cookieJar'.  One request is handled at a time; the cached    *)
(* jar outlives the request.  Here undefined and '' are told apart, as the *)
(* ?? of l.323-324 does: a query parameter is absent, or present with the  *)
(* text it decodes to.                                                     *)
(***************************************************************************)
VARIABLES ipc, ireq, ijar, igot, icache, icfg

instaVars == <<ipc, ireq, ijar, igot, icache, icfg>>

\* cookie.split('; ') of l.337, as the set of its parts
RECURSIVE SplitCookie(_)
SplitCookie(s) ==
    IF \E i \in 1..(Len(s) - 1) : SubSeq(s, i, i + 1) = Sep
    THEN LET i == CHOOSE n \in 1..(Len(s) - 1) :
                      /\ SubSeq(s, n, n + 1) = Sep
                      /\ \A m \in 1..(n - 1) : SubSeq(s, m, m + 1) # Sep
         IN {SubSeq(s, 1, i - 1)} \cup SplitCookie(SubSeq(s, i + 2, Len(s)))
    ELSE {s}

\* a cookie jar: the cookies set from the request's cookie, and whether a
\* response of checkLogin or of a feed request has added its own
NoJar == [built |-> FALSE, cookies |-> {}, server |-> FALSE]

\* l.335-340: new CookieJar() and a setCookie for every part of the cookie
NewJar(cookie) ==
    [built |-> TRUE,
     cookies |-> IF Truthy(cookie) THEN SplitCookie(cookie) ELSE {},
     server |-> FALSE]

\* cookieJar.toJSON() of l.394 and CookieJar.fromJSON of l.342
NoJson == [version |-> "none", cookies |-> {}, server |-> FALSE]

ToJSON(jar) ==
    [version |-> "tough-cookie", cookies |-> jar.cookies, server |-> jar.server]

FromJSON(json) ==
    [built |-> TRUE, cookies |-> json.cookies, server |-> json.server]

\* the vokecookie_b64 parameter of a request: absent, or present and
\* decoding to a text that may be empty
NoQuery == [present |-> FALSE, b64 |-> <<>>]

InstaQueries ==
    {NoQuery} \cup {[present |-> TRUE, b64 |-> v] :
                       v \in {<<>>, <<"a">>, <<"a">> \o Sep \o <<"b">>}}

InstaConfigs == {<<>>, <<"c">>}

Categories == {"user", "tags", "story"}

\* l.324: cookieFromQuery ?? config.instagram?.cookie
InstaCookie(q, cfg) == IF q.present THEN getCookieFromUrlBase64(q) ELSE cfg

\* l.329: useCache = !cookieFromQuery
UseCacheAlways(q) == TRUE

UseCache(q) == ~(q.present /\ Truthy(getCookieFromUrlBase64(q)))

NoInstaReq == [category |-> "none", query |-> NoQuery, cookie |-> <<>>,
               useCache |-> FALSE]

InstaInit ==
    /\ ipc = "idle"
    /\ ireq = NoInstaReq
    /\ ijar = NoJar
    /\ igot = "unread"
    /\ icache = NoJson
    /\ icfg \in (IF served = "instagram" THEN InstaConfigs ELSE {<<>>})

\* l.317-330: the parameters are read; an unsupported category is an error;
\* without a query cookie the cached jar is asked for
InstaStart(category, q) ==
    /\ served = "instagram"
    /\ ipc = "idle"
    /\ ireq' = [category |-> category, query |-> q,
                cookie |-> InstaCookie(q, icfg), useCache |-> UseCache(q)]
    /\ ipc' = IF category \notin {"user", "tags"} THEN "failed"
              ELSE IF ireq'.useCache THEN "get" ELSE "build"
    /\ UNCHANGED <<ijar, igot, icache, icfg>>

\* l.330-343: cache.get answers; a cached jar is revived from its JSON
InstaCacheGet ==
    /\ ipc = "get"
    /\ igot' = IF icache = NoJson THEN "miss" ELSE "hit"
    /\ IF icache = NoJson
       THEN /\ ipc' = "build"
            /\ UNCHANGED ijar
       ELSE /\ ijar' = FromJSON(icache)
            /\ ipc' = IF Truthy(ireq.cookie) THEN "login" ELSE "fetch"
    /\ UNCHANGED <<ireq, icache, icfg>>

\* l.334-340: on a miss the jar is built from the request's cookie; a part
\* that setCookie rejects is an error
InstaBuildJar(ok) ==
    /\ ipc = "build"
    /\ (~ok) => Truthy(ireq.cookie)
    /\ IF ok
       THEN /\ ijar' = NewJar(ireq.cookie)
            /\ ipc' = IF Truthy(ireq.cookie) THEN "login" ELSE "fetch"
       ELSE /\ ipc' = "failed"
            /\ UNCHANGED ijar
    /\ UNCHANGED <<ireq, igot, icache, icfg>>

\* l.345-347 with the jar saved before the check
InstaCheckLoginSaving(ok, setsCookie) ==
    /\ ipc = "login"
    /\ ijar' = [ijar EXCEPT !.server = @ \/ setsCookie]
    /\ ipc' = IF ok THEN "fetch" ELSE "failed"
    /\ icache' = IF ireq.useCache THEN ToJSON(ijar) ELSE icache
    /\ UNCHANGED <<ireq, igot, icfg>>

\* l.345-347: with a cookie, checkLogin is awaited (its response may put a
\* cookie in the jar); a failed check is the error 'Invalid cookie'
InstaCheckLogin(ok, setsCookie) ==
    /\ ipc = "login"
    /\ ijar' = [ijar EXCEPT !.server = @ \/ setsCookie]
    /\ ipc' = IF ok THEN "fetch" ELSE "failed"
    /\ UNCHANGED <<ireq, igot, icache, icfg>>

\* l.351-391: the feed is fetched with the jar; 'tags' without a cookie and
\* a failed request are errors
InstaFetch(ok, setsCookie) ==
    /\ ipc = "fetch"
    /\ IF ireq.category = "tags" /\ ~Truthy(ireq.cookie)
       THEN /\ ipc' = "failed"
            /\ UNCHANGED ijar
       ELSE /\ ijar' = [ijar EXCEPT !.server = @ \/ setsCookie]
            /\ ipc' = IF ~ok THEN "failed"
                      ELSE IF ireq.useCache THEN "set" ELSE "done"
    /\ UNCHANGED <<ireq, igot, icache, icfg>>

\* l.393-395: the jar is stored under 'instagram:cookieJar'
InstaCacheSet ==
    /\ ipc = "set"
    /\ icache' = ToJSON(ijar)
    /\ ipc' = "done"
    /\ UNCHANGED <<ireq, ijar, igot, icfg>>

\* the response is sent; the handler invocation and its locals are gone
InstaReturn ==
    /\ ipc \in {"done", "failed"}
    /\ ipc' = "idle"
    /\ ireq' = NoInstaReq
    /\ ijar' = NoJar
    /\ igot' = "unread"
    /\ UNCHANGED <<icache, icfg>>

InstaNext ==
    \/ \E category \in Categories, q \in InstaQueries : InstaStart(category, q)
    \/ InstaCacheGet
    \/ \E ok \in BOOLEAN : InstaBuildJar(ok)
    \/ \E ok \in BOOLEAN, setsCookie \in BOOLEAN : InstaCheckLogin(ok, setsCookie)
    \/ \E ok \in BOOLEAN, setsCookie \in BOOLEAN : InstaFetch(ok, setsCookie)
    \/ InstaCacheSet
    \/ InstaReturn

(***************************************************************************)
(* extractPostDataFromRenderData (douyin/user.ts 223-258): the search of   *)
(* the parsed RENDER_DATA for a post list.  The input is a graph of        *)
(* objects, possibly with shared and cyclic references; served =           *)
(* "renderdata" runs the search on every graph.                            *)
(***************************************************************************)
VARIABLES rdata, rstack, rvisited, rcount, riter, rret

renderVars == <<rdata, rstack, rvisited, rcount, riter, rret>>

\* the objects of a graph; object 1 is the root
RNodes == {1, 2, 3}

\* the most turns of the while loop that are followed
MaxTurns == 11

\* an object: what it carries itself ("aweme_list": an aweme_list array,
\* "awemeList": an awemeList array, "items": an array property whose first
\* element has an aweme_id, "none": none of them), the objects that are
\* values of its properties, and whether one of its properties is an array
\* that holds object 3 (its first element being without an aweme_id)
RObjects(kinds, arrs) == [kind : kinds, objs : SUBSET RNodes, arr : arrs]

\* the inputs: a value that is not an object, or a graph of three objects
NoGraph == [n \in RNodes |-> [kind |-> "none", objs |-> {}, arr |-> FALSE]]

RInputs ==
    {[object |-> FALSE, graph |-> NoGraph]}
        \cup {[object |-> TRUE, graph |-> <<o1, o2, o3>>] :
                 o1 \in RObjects({"none", "aweme_list"}, BOOLEAN),
                 o2 \in RObjects({"none", "awemeList"}, BOOLEAN),
                 o3 \in RObjects({"none", "items"}, {FALSE})}

\* the elements of a set of objects as a sequence, in property order
RECURSIVE InOrder(_)
InOrder(S) ==
    IF S = {} THEN <<>>
    ELSE LET n == CHOOSE x \in S : \A y \in S : x <= y
         IN <<n>> \o InOrder(S \ {n})

RenderInit ==
    /\ rdata \in (IF served = "renderdata" THEN RInputs
                  ELSE {[object |-> FALSE, graph |-> NoGraph]})
    /\ rstack = <<>>
    /\ rvisited = {}
    /\ rcount = [n \in RNodes |-> 0]
    /\ riter = 0
    /\ rret = "idle"

\* l.224-229: a value that is not an object gives undefined; otherwise the
\* stack starts with the root
ExtractStart ==
    /\ served = "renderdata"
    /\ rret = "idle"
    /\ IF rdata.object
       THEN /\ rstack' = <<1>>
            /\ rret' = "running"
       ELSE /\ rstack' = rstack
            /\ rret' = "undefined"
    /\ UNCHANGED <<rdata, rvisited, rcount, riter>>

\* l.232-234 without the visited test
SeenNever(current) == FALSE

\* l.232-234: an object already in visited is popped and passed over
Seen(current) == current \in rvisited

\* l.230-255: one turn of the while loop: the top of the stack is popped; a
\* new object is marked visited and returned when it carries a post list,
\* otherwise its object-valued properties are pushed (arrays are not)
ExtractLoop ==
    /\ rret = "running"
    /\ rstack # <<>>
    /\ riter < MaxTurns
    /\ riter' = riter + 1
    /\ LET current == rstack[Len(rstack)]
           rest == SubSeq(rstack, 1, Len(rstack) - 1)
           o == rdata.graph[current]
       IN IF Seen(current)
          THEN /\ rstack' = rest
               /\ UNCHANGED <<rvisited, rcount, rret>>
          ELSE /\ rvisited' = rvisited \cup {current}
               /\ rcount' = [rcount EXCEPT ![current] = @ + 1]
               /\ IF o.kind # "none"
                  THEN /\ rret' = o.kind
                       /\ rstack' = rest
                  ELSE /\ rret' = rret
                       /\ rstack' = rest \o InOrder(o.objs)
    /\ UNCHANGED rdata

\* l.257: the stack is empty, nothing was found
ExtractUndefined ==
    /\ rret = "running"
    /\ rstack = <<>>
    /\ rret' = "undefined"
    /\ UNCHANGED <<rdata, rstack, rvisited, rcount, riter>>

RenderNext == ExtractStart \/ ExtractLoop \/ ExtractUndefined

vars ==
    <<served, batchVars, credVars, popVars, dyVars, exVars, instaVars,
      renderVars>>

Init ==
    /\ served \in Routes
    /\ BatchInit
    /\ CredInit
    /\ PopInit
    /\ DyInit
    /\ ExInit
    /\ InstaInit
    /\ RenderInit

Next ==
    \/ LatestNext /\ UNCHANGED <<served, credVars, popVars, dyVars, exVars, instaVars, renderVars>>
    \/ CoindeskNext /\ UNCHANGED <<served, credVars, popVars, dyVars, exVars, instaVars, renderVars>>
    \/ PopularNext /\ UNCHANGED <<served, batchVars, credVars, dyVars, exVars, instaVars, renderVars>>
    \/ DouyinNext /\ UNCHANGED <<served, batchVars, credVars, popVars, exVars, instaVars, renderVars>>
    \/ CredNext /\ UNCHANGED <<served, batchVars, popVars, dyVars, exVars, instaVars, renderVars>>
    \/ ExtractNext /\ UNCHANGED <<served, batchVars, credVars, popVars, dyVars, instaVars, renderVars>>
    \/ InstaNext /\ UNCHANGED <<served, batchVars, credVars, popVars, dyVars, exVars, renderVars>>
    \/ RenderNext /\ UNCHANGED <<served, batchVars, credVars, popVars, dyVars, exVars, instaVars>>

Spec == Init /\ [][Next]_vars

\* every pending promise settles and every handler runs on: a step that
\* stays possible is eventually taken
FairSpec == Spec /\ WF_vars(Next)

(* ============================= properties ============================== *)
Workers == 1..Len(wpc)

\* the workers running the producer of key k
Producers(k) == {i \in Workers : items[i] = k /\ wpc[i] \in ProducerPcs}

\* C1: single flight.  For every key, among the callers of one batch at most
\* one runs the producer, the entry is Pending exactly while one does, and a
\* caller that found the entry Pending waits for that one producer instead
\* of starting a second.
C1_SingleFlight ==
    \A k \in Links :
        /\ Cardinality(Producers(k)) <= 1
        /\ (cache[k].state = "Pending") <=> (Cardinality(Producers(k)) = 1)
        /\ \A i \in Workers :
              (items[i] = k /\ wpc[i] = "wait") => Cardinality(Producers(k)) = 1

\* two concurrent callers of one key: one produces, the other waits
C1_Witness ==
    \E i, j \in Workers :
        /\ i # j
        /\ items[i] = items[j]
        /\ wpc[i] \in ProducerPcs
        /\ wpc[j] = "wait"

\* the tiers of the attempts a fetch has recorded
Tiers(a) == {a[n].tier : n \in 1..Len(a)}

\* fetchItem of worker i is in, or has been through, the browser tier
BrowserEntered(i) ==
    wpc[i] \in {"launch", "selector", "content", "destroy"}
        \/ "Browser" \in Tiers(att[i])

\* fetchListHtml is in, or has been through, the browser tier
PopBrowserEntered ==
    ppc \in {"launch", "content", "destroy"} \/ "Browser" \in Tiers(patt)

\* the first recorded attempt is the Direct tier's, with one of the outcomes
FirstIsDirect(a, outcomes) ==
    a # <<>> /\ a[1].tier = "Direct" /\ a[1].outcome \in outcomes

\* C2 as amended: the Browser tier is entered if and only if the Direct tier
\* did not succeed (its request failed, its content was unusable or blocked,
\* or no request was made for want of a credential) and puppeteer is enabled
\* for the request; no browser session exists otherwise.
C2_BrowserIffDirectNotOk ==
    /\ \A i \in Workers :
          /\ BrowserEntered(i) <=>
                (FirstIsDirect(att[i], {"error", "empty", "blocked", "skipped"})
                    /\ req.usePuppeteer)
          /\ sess[i] # "none" => BrowserEntered(i)
    /\ PopBrowserEntered <=>
          (FirstIsDirect(patt, {"error", "empty", "blocked"})
              /\ preq.usePuppeteer)
    /\ psess # "none" => PopBrowserEntered

\* a browser session is open after a Direct request that failed
C2_Witness ==
    \E i \in Workers :
        /\ sess[i] = "open"
        /\ FirstIsDirect(att[i], {"error", "empty"})

\* C2 as stated: the Browser tier is entered if and only if the Direct tier
\* failed (transport error, unusable content or blocked signature) and the
\* browser tier is permitted.
C2_BrowserIffDirectFailed ==
    /\ \A i \in Workers :
          BrowserEntered(i) <=>
              (FirstIsDirect(att[i], {"error", "empty", "blocked"})
                  /\ req.usePuppeteer)
    /\ PopBrowserEntered <=>
          (FirstIsDirect(patt, {"error", "empty", "blocked"})
              /\ preq.usePuppeteer)

\* C3: the real-browser service is asked only after the Direct tier and then
\* the Browser tier were attempted in this fetch, the Browser tier's content
\* was empty or a challenge page, and the service is configured.
C3_ExternalOnlyAfterBrowser ==
    (ppc = "external" \/ "External" \in Tiers(patt)) =>
        /\ Len(patt) >= 2
        /\ patt[1].tier = "Direct"
        /\ patt[2].tier = "Browser"
        /\ patt[2].outcome \in {"empty", "blocked"}
        /\ preq.service
        /\ preq.usePuppeteer

\* the service has been asked after a challenge page from the browser
C3_Witness ==
    /\ Len(patt) = 3
    /\ patt[2] = [tier |-> "Browser", outcome |-> "blocked"]
    /\ patt[3].tier = "External"

\* C4: a fetch whose tiers are exhausted without usable content fails; it
\* never hands back, as a success, empty content, a challenge page or an
\* item without content.
C4_NoUnusableSuccess ==
    /\ ppc \in {"parse", "done"} => Judge(pret) = "ok"
    /\ \A i \in Workers :
          (req.route = "latest-news" /\ wpc[i] = "done"
              /\ \E n \in 1..Len(att[i]) : att[i][n].outcome # "skipped")
              => wres[i].description # NoDescription

\* C5: once a fetch has completed, by return or by exception, no browser
\* session it opened is still open.
C5_SessionsReleased ==
    /\ dpc \in {"done", "failed", "api"} => dbrowser # "open"
    /\ ppc \in {"parse", "done", "failed", "external"} => psess # "open"
    /\ \A i \in Workers : wpc[i] \in {"done", "failed"} => sess[i] # "open"

\* C6: the results pushed or returned so far are those of the first items in
\* input order, and a finished batch has one result per input item.
C6_OrderAndLength ==
    /\ Len(out) <= Len(items)
    /\ \A i \in 1..Len(out) : out[i].link = items[i]
    /\ hpc = "done" => Len(out) = Len(items)

\* a parallel batch of two different items has finished, only the second
\* with a description
C6_Witness ==
    /\ hpc = "done"
    /\ req.route = "latest-news"
    /\ ~req.usePuppeteer
    /\ Len(out) = 2
    /\ out[1].link # out[2].link
    /\ out[1].description = NoDescription
    /\ out[2].description # NoDescription

\* C7: with puppeteer enabled, fetchItem of item i+1 is not called before
\* that of item i has resolved, at most one fetchItem is running and at most
\* one page context is open.
C7_SerialOneSession ==
    req.usePuppeteer =>
        /\ \A i \in Workers : (i > 1 /\ wpc[i] # "init") => wpc[i - 1] = "done"
        /\ Cardinality({i \in Workers : Running(wpc[i])}) <= 1
        /\ Cardinality({i \in Workers : sess[i] = "open"}) <= 1

\* the second item's page context is open after the first one's was closed
C7_Witness ==
    /\ req.usePuppeteer
    /\ Len(sess) = 2
    /\ sess[1] = "closed"
    /\ sess[2] = "open"

\* C8: a failure while acquiring one item never fails the batch: the handler
\* does not fail because a fetchItem did.
C8_FailureIsLocal ==
    ~(hpc = "failed" /\ \E i \in Workers : wpc[i] = "failed")

\* C9 as amended: xiaohongshu/check-cookie takes the query value alone, with
\* provenance 'query', and without it the header value, with provenance
\* 'header'; the investing routes join every present source with '; ' in the
\* order query, header, environment, under the provenance label of the first.
C9_PrecedenceOrLayering ==
    (crPc = "resolved" /\ crRoute \in {"investing", "xiaohongshu"}) =>
        LET q == crIn.query.b64
            h == crIn.header
            e == crIn.env
            all == Truthy(q) /\ Truthy(h) /\ Truthy(e)
            lower == ~Truthy(q) /\ Truthy(h) /\ Truthy(e)
        IN IF crRoute = "xiaohongshu"
           THEN /\ all => crOut = [cookie |-> q, source |-> "query"]
                /\ lower => crOut = [cookie |-> h, source |-> "header"]
           ELSE /\ all => crOut = [cookie |-> q \o <<";", " ">> \o h
                                                \o <<";", " ">> \o e,
                                   source |-> "query+env/header"]
                /\ lower => crOut = [cookie |-> h \o <<";", " ">> \o e,
                                     source |-> "header+env"]

\* check-cookie has resolved query "a", header "b", configuration "c"
C9_Witness ==
    /\ crPc = "resolved"
    /\ crRoute = "xiaohongshu"
    /\ crIn = [query |-> Encoded(<<"a">>), header |-> <<"b">>, env |-> <<"c">>]
    /\ crOut.cookie = <<"a">>

\* C9 as stated: with query "a", header "b" and environment "c" the value is
\* exactly "a" with a query provenance; with header and environment only,
\* the value is the header's with a header provenance.
C9_QueryAloneWins ==
    (crPc = "resolved" /\ crRoute \in {"investing", "xiaohongshu"}) =>
        LET q == crIn.query.b64
            h == crIn.header
            e == crIn.env
        IN /\ (q = <<"a">> /\ h = <<"b">> /\ e = <<"c">>) =>
                 /\ crOut.cookie = <<"a">>
                 /\ crOut.source \in {"query", "query+env/header"}
           /\ (~Truthy(q) /\ Truthy(h) /\ Truthy(e)) =>
                 /\ crOut.cookie = h
                 /\ crOut.source \in {"header", "header+env"}

\* the texts a log record carries
LogTexts(rec) ==
    IF "prefix" \in DOMAIN rec THEN {rec.prefix}
    ELSE {rec.username, rec.password, rec.authToken}

\* the credentials the request was resolved to
Secrets ==
    (IF crRoute = "twitter"
     THEN {crIn.username.b64, crIn.password.b64, crIn.authToken.b64}
     ELSE {crOut.cookie}) \ {<<>>}

\* C10: no record logged while resolving credentials carries a credential in
\* full.
C10_NoFullCredentialLogged ==
    crPc = "resolved" =>
        \A n \in 1..Len(crLog) : \A text \in LogTexts(crLog[n]) :
            \A secret \in Secrets : ~Occurs(secret, text)

\* C11: a twitter request that carries no query credentials resolves them
\* from the configuration the environment set, whatever earlier requests
\* carried: config.twitter is then what it was at start and the api chosen
\* is the one that configuration selects.
C11_RequestScoped ==
    (/\ crPc = "resolved"
     /\ crRoute = "twitter"
     /\ ~TwitterAnyQuery(crIn.username.b64, crIn.password.b64,
                         crIn.authToken.b64)) =>
        /\ twConfig = twEnv
        /\ crOut.source = TwitterActiveApi(twEnv, FALSE)

\* C12: a douyin request whose call found the entry Ready but expired has
\* invoked the producer, once, and what it returns and what the cache then
\* holds is the value that invocation produced.
C12_ExpiredRecomputed ==
    (dpc # "idle" /\ dfound.state = "Ready" /\ ~dfound.fresh) =>
        /\ dcalls = 1
        /\ dpc = "done" =>
              /\ pageData = [kind |-> "value", value |-> postData]
              /\ dcache[DyKey] = ReadyEntry(postData)

\* user-web has answered a request that found an expired entry with a value
\* other than the expired one
C12_Witness ==
    /\ served = "douyin-web"
    /\ dpc = "done"
    /\ dfound.state = "Ready"
    /\ ~dfound.fresh
    /\ dcalls = 1
    /\ pageData.value # dfound.value

\* fetchItem is called for item i in this step
Called(i) ==
    /\ i \in 1..Len(wpc')
    /\ wpc'[i] # "init"
    /\ (i \in 1..Len(wpc) => wpc[i] = "init")

\* C13: a fetchItem call that finds a Ready entry that has not expired
\* resolves at once with the stored value: the producer is not started, no
\* tier is attempted and no page context is opened for it.
C13_HitSkipsProducer ==
    [][\A i \in 1..MaxItems + 1 :
          (/\ Called(i)
           /\ cache[items'[i]].state = "Ready"
           /\ cache[items'[i]].fresh) =>
              /\ wpc'[i] = "done"
              /\ wres'[i] = cache[items'[i]].value
              /\ att'[i] = <<>>
              /\ sess'[i] = "none"
              /\ cache'[items'[i]] = cache[items'[i]]]_vars

\* the only item of a latest-news batch has resolved with a description
\* and without a tier attempt: it was served from the cache
C13_Witness ==
    /\ req.route = "latest-news"
    /\ Len(items) = 1
    /\ wpc[1] = "done"
    /\ att[1] = <<>>
    /\ wres[1].description # NoDescription
    /\ cache[items[1]].state = "Ready"

\* C14: when the douyin producer has thrown, the request and the request
\* waiting on the same entry both have that one error, the entry is gone
\* (nothing is Ready for the key), and a call that finds no entry invokes
\* the producer.
C14_ProducerErrorShared ==
    /\ dpc = "failed" =>
          /\ pageData.kind = "error"
          /\ dwaiter.kind # "none" => dwaiter = pageData
          /\ dcache[DyKey] = DyNoEntry
    /\ (dpc # "idle" /\ dfound.state = "None") => dcalls = 1

\* the producer of a later request has thrown again (an earlier one had
\* thrown with its browser open), and the waiting request has the error
C14_Witness ==
    /\ served = "douyin"
    /\ dleaked
    /\ dpc = "failed"
    /\ dcalls = 1
    /\ pageData.kind = "error"
    /\ dwaiter = pageData

\* C15: a caller suspended on a Pending entry is eventually released, and
\* then has the outcome of the producer's caller (the same value, or the
\* same failure); while it is suspended the producer is still running.
C15_WaitersReleased ==
    /\ [](\A i, j \in Workers :
             (/\ ~req.usePuppeteer
              /\ items[i] = items[j]
              /\ wpc[i] \in {"done", "failed"}
              /\ wpc[j] \in {"done", "failed"}) =>
                 (wpc[i] = wpc[j] /\ wres[i] = wres[j]))
    /\ [](\A j \in Workers : wpc[j] = "wait" => Producers(items[j]) # {})
    /\ \A j \in 1..MaxItems :
          (j \in Workers /\ wpc[j] = "wait")
              ~> (j \in Workers /\ wpc[j] \in {"done", "failed"})

\* both fetches of a repeated coindesk link have failed: the second one
\* waited for the producer of the first and was released with its failure
C15_Witness ==
    /\ req.route = "coindesk"
    /\ Len(items) = 2
    /\ items[1] = items[2]
    /\ wpc = <<"failed", "failed">>

\* C16: a Direct-tier body that does not start with a markup character, or
\* that carries the challenge signature, makes the Direct tier fail although
\* the transport succeeded; with the browser tier disabled the fetch then
\* ends in an error, never in a success. For latest-news the Direct fetch is
\* the feed request (l.73-83), for most-popular-news the list request
\* (l.109-126), whose body is in listHtml when the browser is disabled.
C16_DirectUnusableFails ==
    /\ (req.route = "latest-news" /\ ~req.usePuppeteer
            /\ req.feed \in {"text", "html"}) => hpc = "failed"
    /\ (/\ ~preq.usePuppeteer
        /\ patt # <<>>
        /\ patt[1].outcome # "error"
        /\ listHtml \in {"", "challenge", "text"}) => ppc # "done"

\* the outcome of the External-render attempt of this fetch, "none" if the
\* tier was not attempted
ExternalOutcome ==
    IF \E k \in 1..Len(patt) : patt[k].tier = "External"
    THEN patt[CHOOSE k \in 1..Len(patt) : patt[k].tier = "External"].outcome
    ELSE "none"

\* C17: when the External-render tier is configured and reached and it
\* answers with no fragment, or fails, the fetch ends in the error of
\* exhausted tiers: the handler is failed, it does not go on with content.
C17_ExternalEmptyExhausts ==
    (preq.service /\ ExternalOutcome \in {"error", "empty"}) => ppc = "failed"

\* the outcome of the Browser attempt of this fetch, "none" if the tier was
\* not attempted
BrowserOutcome ==
    IF \E k \in 1..Len(patt) : patt[k].tier = "Browser"
    THEN patt[CHOOSE k \in 1..Len(patt) : patt[k].tier = "Browser"].outcome
    ELSE "none"

\* C18: a failure of any kind in the Browser tier (an exception, a timeout,
\* empty or blocked content) falls through to the External tier when that
\* tier is configured: once the fetch is over, failed or not, the External
\* tier has been attempted.
C18_AnyBrowserFailureFallsThrough ==
    (/\ preq.service
     /\ BrowserOutcome \in {"error", "empty", "blocked"}
     /\ ppc \in {"failed", "parse", "done"}) => ExternalOutcome # "none"

\* the place of a tier in the escalation order
TierRank(tier) ==
    CASE tier = "Direct" -> 1
      [] tier = "Browser" -> 2
      [] tier = "External" -> 3

\* the attempts of one fetch are in strictly ascending tier order
Ascending(a) ==
    \A m, n \in 1..Len(a) : m < n => TierRank(a[m].tier) < TierRank(a[n].tier)

\* C19: within one fetch each tier is attempted at most once, and no tier is
\* entered again after a later tier: the attempts of every fetchItem call
\* and of fetchListHtml are in strictly ascending tier order.
C19_EachTierOnce ==
    /\ \A i \in 1..Len(att) : Ascending(att[i])
    /\ Ascending(patt)

C19_Witness ==
    /\ ppc = "done"
    /\ Len(patt) = 3
    /\ ExternalOutcome = "ok"
    /\ pout > 0

\* C20: with no real-browser service configured the External tier is skipped:
\* no request is sent to it, and its absence alone is no error, i.e. every
\* failure of such a fetch is an error thrown by the Direct or Browser tier,
\* a Direct tier that failed with puppeteer disabled, or the handler's check
\* for an empty list (l.193) with neither cookie nor puppeteer.
C20_UnconfiguredExternalSkipped ==
    ~preq.service =>
        /\ ExternalOutcome = "none"
        /\ ppc # "external"
        /\ ppc = "failed" =>
              \/ patt[Len(patt)].outcome = "error"
              \/ ~preq.usePuppeteer /\ patt[1].outcome # "ok"
              \/ ~preq.usePuppeteer /\ ~Truthy(preq.cookie)

C20_Witness ==
    /\ ~preq.service
    /\ preq.usePuppeteer
    /\ Len(patt) = 2
    /\ BrowserOutcome = "blocked"
    /\ ExternalOutcome = "none"
    /\ ppc = "done"

\* the outcome of the Browser attempt of fetchItem call i, "none" if the
\* page content has not been read
ItemBrowserOutcome(i) ==
    IF \E k \in 1..Len(att[i]) : att[i][k].tier = "Browser"
    THEN att[i][CHOOSE k \in 1..Len(att[i]) : att[i][k].tier = "Browser"].outcome
    ELSE "none"

Strategies == <<"primary", "alternate", "generic", "meta">>

\* the first strategy, in the fixed order, whose selector yields content
FirstWithContent(page) ==
    IF \E n \in 1..4 : page[Strategies[n]] = "content"
    THEN Strategies[CHOOSE n \in 1..4 :
                        /\ page[Strategies[n]] = "content"
                        /\ \A m \in 1..(n - 1) : page[Strategies[m]] # "content"]
    ELSE NoDescription

\* C22: extraction returns the content of the first strategy, in the order
\* primary, alternate, generic, metadata, whose selector yields non-empty
\* content; a strategy that matches with empty content is passed over and
\* the next one tried.
C22_FirstNonEmptyStrategy ==
    xtier # "none" => xhtml = FirstWithContent(xpage)

\* C23: the strategy order is deterministic: for a page on which both the
\* primary and the alternate container yield content, the description is
\* the primary container's, on the Direct tier and on the Browser tier.
C23_PrimaryBeforeAlternate ==
    (/\ xtier \in {"Direct", "Browser"}
     /\ xpage.primary = "content"
     /\ xpage.alternate = "content") => xhtml = "primary"

C23_Witness ==
    /\ xtier = "Browser"
    /\ xpage.primary = "content"
    /\ xpage.alternate = "content"
    /\ xhtml = "primary"

\* C23 as stated: whenever both selectors match, strategy 1 is reported
C23_PrimaryWheneverBothMatch ==
    (/\ xtier \in {"Direct", "Browser"}
     /\ xpage.primary # "absent"
     /\ xpage.alternate # "absent") => xhtml = "primary"

\* fetchItem call i is over and none of its retrievals yielded a fragment
NothingExtracted(i) ==
    /\ wpc[i] \in {"done", "failed"}
    /\ att[i] # <<>>
    /\ att[i][Len(att[i])].outcome = "empty"

C25_FailsOnlyWhenEmpty ==
    /\ items # <<>> => hpc # "failed"
    /\ (hpc = "done" /\ items # <<>>) => Len(out) = Len(items)
    /\ ppc = "failed" => pout = 0

C27_AtMostLimitItems ==
    /\ (req.route = "latest-news" /\ hpc \in {"batch", "done"}) =>
          /\ Len(items) <= (IF req.limit < 0 THEN 0 ELSE req.limit)
          /\ Len(items) <= req.avail
    /\ ppc = "done" =>
          /\ pout <= (IF preq.limit < 0 THEN 0 ELSE preq.limit)
          /\ pout <= preq.avail

C29_EarliestSourceWins ==
    (served = "douyin" /\ dcalls = 1 /\ dpc \in {"done", "failed"}) =>
        /\ dpc = "done" =>
              /\ postData.from \in {"intercept", "render", "api"}
              /\ postData.n > 0
        /\ postData.from = "render" => postData = RenderPostData(renderDataText)
        /\ postData.from = "api" => RenderPostData(renderDataText) = NoPost
        /\ (dpc = "failed" /\ pageData.value.from = "api") =>
              /\ postData = NoPost
              /\ RenderPostData(renderDataText) = NoPost

\* C30: the intercepted post data is assigned at most once per page load:
\* once the body of a '/web/aweme/post' response has been captured, no step
\* of the same producer run changes postData, whatever the order in which
\* the response callbacks and their bodies arrive.
C30_CapturedOnce ==
    [][(postData.from = "intercept" /\ dpc' # "idle") =>
           postData' = postData]_vars

\* the request being handled carries a cookie in its query
QueryCookie == ireq.query.present /\ Truthy(ireq.query.b64)

\* C31: an instagram request that supplies a cookie in its query neither
\* reads nor writes the cached jar: cache.get is not called and no step of
\* the request changes the cached jar, and the jar the request uses holds
\* exactly the parts of its own cookie.
C31_QueryCookieBypassesCache ==
    /\ [](QueryCookie =>
            /\ igot = "unread"
            /\ ipc \notin {"get", "set"}
            /\ ijar.built => ijar.cookies = SplitCookie(ireq.query.b64))
    /\ [][(QueryCookie \/ QueryCookie') => icache' = icache]_vars

C31_Witness ==
    /\ QueryCookie
    /\ ipc = "done"
    /\ icache.cookies = {<<"c">>}
    /\ ijar.cookies = {<<"a">>, <<"b">>}

\* C32: the cached jar is written only at the successful end of a request:
\* the one step that changes it is the cache.set that completes the
\* handler, so a request that ends in an error (unsupported category,
\* rejected cookie, 'tags' without a cookie, failed upstream request)
\* leaves the cache as it found it.
C32_JarWrittenOnlyOnSuccess ==
    [][/\ icache' # icache => (ipc = "set" /\ ipc' = "done")
       /\ ipc' = "failed" => icache' = icache]_vars

C32_Witness ==
    /\ ipc = "failed"
    /\ ireq.useCache
    /\ igot = "hit"
    /\ ijar.server
    /\ ~icache.server

(***************************************************************************)
(* The search of the render data                                           *)
(***************************************************************************)
\* the objects that are values of properties of the objects of S
ObjectValues(S) == UNION {rdata.graph[n].objs : n \in S}

\* the objects held by array-valued properties of the objects of S
ArrayElements(S) == IF \E n \in S : rdata.graph[n].arr THEN {3} ELSE {}

RECURSIVE Closure(_, _)
Closure(S, withArrays) ==
    LET T == S \cup ObjectValues(S)
                \cup (IF withArrays THEN ArrayElements(S) ELSE {})
    IN IF T = S THEN S ELSE Closure(T, withArrays)

\* the objects the root reaches through properties whose values are objects
ReachedByObjects == Closure({1}, FALSE)

\* the objects the root reaches through properties and array elements
Reachable == Closure({1}, TRUE)

Carries(n) == rdata.graph[n].kind # "none"

Ended == rret \notin {"idle", "running"}

\* C33 as stated: the search returns undefined exactly when no object
\* reachable from the input, through properties or array elements, carries
\* an aweme_list or awemeList array or an array whose first element has an
\* aweme_id.
C33_UndefinedIffNothingReachable ==
    (Ended /\ rdata.object) =>
        (rret = "undefined" <=> ~\E n \in Reachable : Carries(n))

\* C33, amended: the search ends for every input graph, shared and cyclic
\* references included; no object is expanded twice and the loop takes at
\* most one turn per pushed value; and it returns undefined exactly when
\* the input is not an object or no object reached through object-valued
\* properties carries a post list (an array-valued property is only looked
\* at for its first element, its elements are not searched).
C33_TerminatesAndSearchesObjects ==
    /\ [](/\ \A n \in RNodes : rcount[n] <= 1
          /\ riter <= 1 + Cardinality(RNodes) * Cardinality(RNodes)
          /\ Ended =>
                (rret = "undefined"
                    <=> (~rdata.object
                            \/ ~\E n \in ReachedByObjects : Carries(n))))
    /\ (served = "renderdata") ~> Ended

\* a cyclic graph whose only post list sits in an object held by an array:
\* the search has ended with undefined, each object expanded once
C33_Witness ==
    /\ rret = "undefined"
    /\ rdata.object
    /\ 2 \in rdata.graph[1].objs
    /\ {1, 2} \subseteq rdata.graph[2].objs
    /\ rdata.graph[1].arr
    /\ rdata.graph[3].kind = "items"
    /\ rcount[1] = 1 /\ rcount[2] = 1 /\ rcount[3] = 0

====
